---- MODULE Spec2Model ----
(***************************************************************************)
(* Model of src/unionize.py: class cross_section_data.  The object reads   *)
(* ACE tables for a list of nuclides, builds the union energy grid, the    *)
(* reaction catalog and the dense cross-section table, and emits scatter   *)
(* and energy records per (grid row, reaction column).                     *)
(*                                                                         *)
(* Conventions.  Python lists and numpy arrays are TLA+ sequences; the     *)
(* code's 0-based indices are kept wherever they are values of the program *)
(* (IE, lower_index, next_dex, column numbers) and converted at the point  *)
(* of access (At, PyAt).  Python objects are records and hasattr(o, a) is  *)
(* a \in DOMAIN o.  Energies are integers; every value that interpolation  *)
(* can produce is an exact rational <<n, d>> with d > 0 in lowest terms.   *)
(* The float32 rounding of the returned buffers is not modelled.           *)
(***************************************************************************)
EXTENDS Integers, Sequences, FiniteSets, TLC

(***************************************************************************)
(* Bounds of the model.                                                    *)
(***************************************************************************)
\* longest user nuclide list
MaxIsotopes == 2
\* largest offset between paired energy axes of the ACE data
MaxSkew == 2

None == "None"

(***************************************************************************)
(* Exact rationals.                                                        *)
(***************************************************************************)
RECURSIVE GCD(_, _)
GCD(a, b) == IF b = 0 THEN a ELSE GCD(b, a % b)

Abs(n) == IF n < 0 THEN -n ELSE n

Rat(n, d) ==
    LET s == IF d < 0 THEN -1 ELSE 1
        g == GCD(Abs(n), Abs(d))
    IN  <<(s * n) \div g, (s * d) \div g>>

R(n) == <<n, 1>>
RSeq(s) == [i \in 1..Len(s) |-> R(s[i])]
RAdd(p, q) == Rat(p[1] * q[2] + q[1] * p[2], p[2] * q[2])
RSub(p, q) == Rat(p[1] * q[2] - q[1] * p[2], p[2] * q[2])
RMul(p, q) == Rat(p[1] * q[1], p[2] * q[2])
RLeq(p, q) == p[1] * q[2] <= q[1] * p[2]
RAbs(p) == <<Abs(p[1]), p[2]>>

(***************************************************************************)
(* Python and numpy primitives used by the class.                          *)
(***************************************************************************)
hasattr(o, a) == a \in DOMAIN o

setattr(o, a, v) == [f \in DOMAIN o \cup {a} |-> IF f = a THEN v ELSE o[f]]

\* s[i] for a 0-based index i >= 0
At(s, i) == s[i + 1]

\* s[i] as Python evaluates it: a negative index counts from the end
PyAt(s, i) == IF i < 0 THEN s[Len(s) + i + 1] ELSE s[i + 1]

\* s[i:]
From(s, i) == SubSeq(s, i + 1, Len(s))

Range(s) == {s[i] : i \in 1..Len(s)}

Min(S) == CHOOSE x \in S : \A y \in S : x <= y

RECURSIVE SortedSeq(_)
SortedSeq(S) ==
    IF S = {} THEN <<>> ELSE <<Min(S)>> \o SortedSeq(S \ {Min(S)})

\* numpy.union1d(a, b): the sorted array of the distinct values of a and b
union1d(a, b) == SortedSeq(Range(a) \cup Range(b))

\* next((i for i, x in enumerate(pred over s) if x), default), 0-based
FirstIndex(s, P(_), default) ==
    IF \E i \in 1..Len(s) : P(s[i])
    THEN (CHOOSE i \in 1..Len(s) : P(s[i]) /\ \A j \in 1..(i - 1) : ~P(s[j])) - 1
    ELSE default

\* numpy.interp(x, xp, fp, left, right) at one abscissa x; xp increasing,
\* fp rationals of the same length
interp1(x, xp, fp, left, right) ==
    IF x < xp[1] THEN left
    ELSE IF x > xp[Len(xp)] THEN right
    ELSE IF x = xp[Len(xp)] THEN fp[Len(fp)]
    ELSE LET j == CHOOSE j \in 1..(Len(xp) - 1) : xp[j] <= x /\ x < xp[j + 1]
         IN  RAdd(fp[j], RMul(RSub(fp[j + 1], fp[j]),
                              Rat(x - xp[j], xp[j + 1] - xp[j])))

\* numpy.interp(x, xp, fp, left=left) over an array x
interp(x, xp, fp, left) ==
    [i \in 1..Len(x) |-> interp1(x[i], xp, fp, left, fp[Len(fp)])]

\* numpy.cumsum
RECURSIVE SumTo(_, _)
SumTo(s, n) == IF n = 0 THEN 0 ELSE SumTo(s, n - 1) + s[n]

cumsum(s) == [i \in 1..Len(s) |-> SumTo(s, i)]

\* numpy.argmax over a boolean array: index of the first True, 0 if none
argmax(b) == FirstIndex(b, LAMBDA x : x, 0)

(***************************************************************************)
(* The environment: the ACE library files and the xsdir index.  The        *)
(* content of the files is an input; it is chosen once (ace_variant) from  *)
(* the family below.  rev is the order in which a table's reaction         *)
(* mapping presents its keys; skew moves the points of paired energy axes  *)
(* (threshold and distribution axis, the a and b axes of a Watt spectrum,  *)
(* the total and delayed nu axes) against each other.                      *)
(***************************************************************************)
Variants == [rev : BOOLEAN, skew : 0..MaxSkew]

Reverse(s) == [i \in 1..Len(s) |-> s[Len(s) + 1 - i]]

\* iteration order of the reactions mapping of a parsed table
DictOrder(v, s) == IF v.rev THEN Reverse(s) ELSE s

Half == <<1, 2>>
Quarter == <<1, 4>>
IsoCdf == <<R(0), Half, R(1)>>
FwdCdf == <<R(0), Quarter, R(1)>>
Cos3 == <<R(-1), R(0), R(1)>>
Flat3 == <<Half, Half, Half>>

\* tabulated angular distribution on the incident energies axis: isotropic
\* at the first energy, forward peaked at the others
AngData(axis) ==
    [ang_energy_in |-> axis,
     ang_intt      |-> [i \in 1..Len(axis) |-> 2],
     ang_cos       |-> [i \in 1..Len(axis) |-> Cos3],
     ang_pdf       |-> [i \in 1..Len(axis) |-> Flat3],
     ang_cdf       |-> [i \in 1..Len(axis) |-> IF i = 1 THEN IsoCdf ELSE FwdCdf]]

\* law 4 tabular outgoing-energy distribution on the incident energies axis
TabularDist(axis) ==
    [law        |-> 4,
     energy_in  |-> axis,
     intt       |-> [i \in 1..Len(axis) |-> 2],
     energy_out |-> [i \in 1..Len(axis) |-> <<R(0), R(i)>>],
     pdf        |-> [i \in 1..Len(axis) |-> <<Half, Half>>],
     cdf        |-> [i \in 1..Len(axis) |-> <<R(0), R(1)>>]]

\* law 9 evaporation spectrum
EvaporationDist(axis) ==
    [law       |-> 9,
     energy_in |-> axis,
     T         |-> [i \in 1..Len(axis) |-> R(i)],
     U         |-> R(1)]

\* law 11 energy-dependent Watt spectrum: a and b on their own axes
WattDist(axisa, axisb) ==
    [law        |-> 11,
     energya_in |-> axisa,
     a          |-> [i \in 1..Len(axisa) |-> R(i)],
     energyb_in |-> axisb,
     b          |-> [i \in 1..Len(axisb) |-> R(2 * i + 1)],
     U          |-> R(1)]

\* law 61 joint angle-energy distribution: one angular table per outgoing
\* energy of every incident energy; in the files of the widest skew the last
\* incident energy carries one angular table more than it has outgoing
\* energies
JointDist(v, axis) ==
    LET Tables(i) == IF i = Len(axis) /\ v.skew >= 2 THEN 1..3 ELSE 1..2
    IN  [law           |-> 61,
         a_dist_intt   |-> [i \in 1..Len(axis) |-> <<1, 1>>],
         a_dist_mu_out |-> [i \in 1..Len(axis) |-> [t \in Tables(i) |-> <<R(-1), R(1)>>]],
         a_dist_cdf    |-> [i \in 1..Len(axis) |-> [t \in Tables(i) |-> <<R(0), R(1)>>]],
         a_dist_pdf    |-> [i \in 1..Len(axis) |-> [t \in Tables(i) |-> <<Half, Half>>]]]
        @@ TabularDist(axis)

\* an energy distribution that has an incident-energy axis and none of the
\* payloads energy_out, T, a (law 67 as the parser leaves it)
AngleEnergyDist(axis) ==
    [law       |-> 67,
     energy_in |-> axis]

Rxn(MT, Qv, IE, sigma, mult) ==
    [MT |-> MT, Q |-> Qv, IE |-> IE, sigma |-> RSeq(sigma), multiplicity |-> mult]

\* threshold index of the (n,2n) reaction of the light nuclide
LateIE(v) == IF v.skew < 2 THEN v.skew ELSE 2

TableH(v) ==
    [name     |-> "1001.03c",
     awr      |-> 1,
     temp     |-> 3,
     energy   |-> <<1, 3, 5>>,
     sigma_t  |-> RSeq(<<10, 20, 40>>),
     reactions |-> DictOrder(v, <<
        Rxn(2, 0, 0, <<4, 8, 6>>, 1) @@ AngData(<<1, 5>>),
        Rxn(3, 0, 0, <<6, 12, 34>>, 1),
        Rxn(4, -1, 1, <<1, 2>>, 1) @@ AngData(<<3, 7>>),
        Rxn(16, -2, LateIE(v), From(<<5, 6, 7>>, LateIE(v)), 2)
            @@ AngData(<<2, 5>>) @@ [energy_dist |-> TabularDist(<<2, 4>>)],
        Rxn(102, 2, 0, <<3, 2, 1>>, 0),
        Rxn(207, 0, 1, <<1, 1>>, 4) >>)]

TableO(v) ==
    [name     |-> "8016.03c",
     awr      |-> 16,
     temp     |-> 3,
     energy   |-> <<2, 4>>,
     sigma_t  |-> RSeq(<<6, 2>>),
     reactions |-> DictOrder(v, <<
        Rxn(2, 0, 0, <<3, 1>>, 1) @@ AngData(<<2, 4>>),
        Rxn(16, -4, 0, <<1, 2>>, 2)
            @@ [energy_dist |-> WattDist(<<2, 4>>, <<2, 4 + v.skew>>)],
        Rxn(51, -1, 0, <<2, 2>>, 1)
            @@ [energy_dist |-> EvaporationDist(<<3, 4>>)],
        Rxn(91, -3, 1, <<1>>, 1)
            @@ [energy_dist |-> JointDist(v, <<2, 4>>)] >>)]

\* last point of the total-nu axis of the fissile nuclide
NuTop == MaxSkew + 3

PrecursorGroup ==
    [law        |-> 4,
     intt       |-> <<2, 2>>,
     energy_out |-> <<<<R(0), R(1)>>, <<R(0), R(2)>>>>,
     cdf        |-> <<<<R(0), R(1)>>, <<R(0), R(1)>>>>,
     pdf        |-> <<<<Half, Half>>, <<Half, Half>>>>]

TableU(v) ==
    [name     |-> "92235.03c",
     awr      |-> 233,
     temp     |-> 3,
     energy   |-> <<1, 4, NuTop + 2>>,
     sigma_t  |-> RSeq(<<9, 7, 5>>),
     nu_t_energy     |-> <<2, NuTop>>,
     nu_t_value      |-> <<R(2), R(4)>>,
     nu_t_interp_INT |-> [scalar |-> TRUE, v |-> 2],
     nu_d_energy     |-> <<1 + v.skew, NuTop - 1 + v.skew>>,
     nu_d_value      |-> <<Quarter, Half>>,
     nu_p_energy     |-> <<1, NuTop>>,
     nu_p_value      |-> <<R(2), R(3)>>,
     nu_p_interp_INT |-> [scalar |-> TRUE, v |-> 2],
     nu_d_energy_dist    |-> [g \in 1..6 |-> PrecursorGroup],
     nu_d_precursor_prob |-> [g \in 1..6 |-> <<Rat(1, 6), Rat(1, 6)>>],
     reactions |-> DictOrder(v, <<
        Rxn(2, 0, 0, <<5, 4, 3>>, 1) @@ AngData(<<1, 4>>),
        Rxn(18, 180, 0, <<2, 2, 1>>, 19)
            @@ [energy_dist |-> TabularDist(<<1, 3>>)],
        Rxn(102, 6, 0, <<2, 1, 1>>, 0)
            @@ [energy_dist |-> AngleEnergyDist(<<4, NuTop + 2>>)],
        Rxn(207, 0, 1, <<1, 1>>, 4) >>)]

\* a table that has a total cross section and no reaction at all
TableHe(v) ==
    [name     |-> "2004.03c",
     awr      |-> 4,
     temp     |-> 3,
     energy   |-> <<1, 2, 4>>,
     sigma_t  |-> RSeq(<<10, 20, 40>>),
     reactions |-> <<>>]

\* the tables each ACE library file holds
AceFiles(v) ==
    [p \in {"endf/h", "endf/ou", "endf/he"} |->
        IF p = "endf/h" THEN {TableH(v)}
        ELSE IF p = "endf/ou" THEN {TableO(v), TableU(v)}
        ELSE {TableHe(v)}]

\* the body lines of the xsdir file; no identifier occurs inside another,
\* so the unanchored search of _resolve_library finds whole identifiers
XsdirLines ==
    << [id |-> "1001.03c",  path |-> "endf/h"],
       [id |-> "8016.03c",  path |-> "endf/ou"],
       [id |-> "92235.03c", path |-> "endf/ou"],
       [id |-> "2004.03c",  path |-> "endf/he"],
       [id |-> "5010.03c",  path |-> "endf/h"] >>

\* the nuclide identifiers a client may ask for; "9999.03c" is in no xsdir
\* line and "5010.03c" is listed for a file that does not hold it
Nuclides ==
    {"1001.03c", "8016.03c", "92235.03c", "2004.03c", "5010.03c", "9999.03c"}

\* the xsdir files of the file system, each with the datapath= directive of
\* its first line ("" when the first line has none)
XsdirFiles ==
    [p \in {"/d/xsdir", "/f/xsdir"} |-> IF p = "/d/xsdir" THEN "/e" ELSE ""]

DatapathInputs == {"/d", "/d/xsdir", "/f/xsdir", "/none"}

(***************************************************************************)
(* State of a cross_section_data object (the fields of __init__), of the   *)
(* table objects the parser returned (heap), and of the call in progress.  *)
(***************************************************************************)
VARIABLES
    ace_variant,            \* the content of the ACE files
    pc,                     \* the last phase of the pipeline that completed
    isotope_list,
    datapath,
    xsdirstring,
    libraries,
    heap,                   \* table objects by name: tables holds references
    tables,
    num_isotopes,
    MT_E_grid,
    num_main_E,
    reaction_numbers,
    Q,
    awr,
    temp,
    reaction_numbers_total,
    num_reactions,
    MT_array,
    ret                     \* the value the last accessor or emitter returned

vars == <<ace_variant, pc, isotope_list, datapath, xsdirstring, libraries, heap,
          tables, num_isotopes, MT_E_grid, num_main_E, reaction_numbers, Q, awr,
          temp, reaction_numbers_total, num_reactions, MT_array, ret>>

loadVars == <<datapath, xsdirstring, libraries, heap, tables, num_isotopes>>
indexVars == <<reaction_numbers, Q, awr, temp, reaction_numbers_total, num_reactions>>

\* the value of ret: which method was called on what, and what it returned
Call(fn, args, val) == [fn |-> fn, args |-> args, val |-> val]

NoCall == [fn |-> "none"]

EmptyMap == [x \in {} |-> x]

\* __init__
Init ==
    /\ ace_variant \in Variants
    /\ pc = "new"
    /\ isotope_list = <<>>
    /\ datapath = ""
    /\ xsdirstring = <<>>
    /\ libraries = EmptyMap
    /\ heap = EmptyMap
    /\ tables = <<>>
    /\ num_isotopes = 0
    /\ MT_E_grid = <<>>
    /\ num_main_E = 0
    /\ reaction_numbers = <<>>
    /\ Q = <<>>
    /\ awr = <<>>
    /\ temp = <<>>
    /\ reaction_numbers_total = <<>>
    /\ num_reactions = 0
    /\ MT_array = <<>>
    /\ ret = NoCall

\* the nuclide lists a client can pass as a comma-separated string
IsotopeLists == UNION {[1..n -> Nuclides] : n \in 1..MaxIsotopes}

\* _init_from_string: split(',') of a string is never the empty list
InitFromString(list) ==
    /\ pc = "new"
    /\ isotope_list' = list
    /\ UNCHANGED <<ace_variant, pc, loadVars, MT_E_grid, num_main_E, indexVars,
                   MT_array, ret>>

\* _add_isotope
AddIsotope(isotope) ==
    /\ pc = "new"
    /\ Len(isotope_list) < MaxIsotopes
    /\ isotope_list' = Append(isotope_list, isotope)
    /\ UNCHANGED <<ace_variant, pc, loadVars, MT_E_grid, num_main_E, indexVars,
                   MT_array, ret>>

(***************************************************************************)
(* Resolve and load.                                                       *)
(***************************************************************************)
HardCodedDatapath == "/home/dc-davi4/xsdata/endfvi/"

NotResolved == "0"

\* _resolve_library against an xsdir text and a datapath
ResolveLibrary(xsdir, dpath, tope) ==
    IF \E i \in 1..Len(xsdir) : xsdir[i].id = tope
    THEN LET a == xsdir[CHOOSE i \in 1..Len(xsdir) :
                        /\ xsdir[i].id = tope
                        /\ \A j \in 1..(i - 1) : xsdir[j].id # tope]
         IN  IF dpath # "" THEN dpath \o "/" \o a.path ELSE a.path
    ELSE NotResolved

_resolve_library(tope) == ResolveLibrary(xsdirstring, datapath, tope)

\* re.search('xsdir', datapath)
NamesXsdir(path) == path \in {"/d/xsdir", "/f/xsdir"}

\* whether the open() of _read_tables succeeds
XsdirOpens(datapath_in) ==
    IF NamesXsdir(datapath_in)
    THEN datapath_in \in DOMAIN XsdirFiles
    ELSE (datapath_in \o "/xsdir") \in DOMAIN XsdirFiles

\* self.datapath after the try block of _read_tables
DatapathAfterOpen(datapath_in) ==
    IF NamesXsdir(datapath_in) THEN XsdirFiles[datapath_in] ELSE datapath_in

\* self.datapath when the isotopes are resolved
ResolvedDatapath(datapath_in) == HardCodedDatapath

\* the ACE file a library path names
FileOf(librarypath) ==
    CHOOSE p \in DOMAIN AceFiles(ace_variant) :
        \E d \in {"", HardCodedDatapath \o "/", "/d/", "/e/"} : librarypath = d \o p

\* the first loop of _read_tables: library path -> the isotopes it serves
LibraryMap(libs, list, xsdir, dpath) ==
    LET paths == DOMAIN libs \cup {ResolveLibrary(xsdir, dpath, list[i]) : i \in 1..Len(list)}
        Mine(p) == SelectSeq(list, LAMBDA t : ResolveLibrary(xsdir, dpath, t) = p)
    IN  [p \in paths |-> IF p \in DOMAIN libs THEN libs[p] \o Mine(p) ELSE Mine(p)]

\* ace.Library(path).read() for every path, then find_table: the table
\* objects of the files read, by name
ReadLibraries(paths) ==
    LET objs == UNION {AceFiles(ace_variant)[FileOf(p)] : p \in paths}
    IN  [n \in {t.name : t \in objs} |-> CHOOSE t \in objs : t.name = n]

\* lib[librarypath].find_table(tope): a reference to the table, or None
find_table(objs, tope) == IF tope \in DOMAIN objs THEN tope ELSE None

\* a loader that extracts the tables in the reverse of the list order
ExtractTables_Reversed(objs, list) ==
    [k \in 1..Len(list) |-> find_table(objs, list[Len(list) + 1 - k])]

\* the last loop of _read_tables: the tables appended, in list order
ExtractTables(objs, list) == [k \in 1..Len(list) |-> find_table(objs, list[k])]

_read_tables(datapath_in) ==
    /\ pc = "new"
    /\ IF ~XsdirOpens(datapath_in)
       THEN \* exit(0)
            /\ pc' = "exited"
            /\ datapath' = datapath_in
            /\ UNCHANGED <<xsdirstring, libraries, heap, tables, num_isotopes>>
       ELSE LET libs == LibraryMap(libraries, isotope_list, XsdirLines,
                                   ResolvedDatapath(datapath_in))
            IN  /\ datapath' = ResolvedDatapath(datapath_in)
                /\ xsdirstring' = XsdirLines
                /\ num_isotopes' =
                       IF isotope_list = <<>> \/ NotResolved \in DOMAIN libs
                       THEN 0 ELSE Len(isotope_list)
                /\ IF isotope_list = <<>>
                   THEN \* print librarypath: the name is not bound
                        /\ pc' = "failed"
                        /\ UNCHANGED <<libraries, heap, tables>>
                   ELSE IF NotResolved \in DOMAIN libs
                   THEN \* ace.Library(0) cannot be read
                        /\ pc' = "failed"
                        /\ libraries' = libs
                        /\ UNCHANGED <<heap, tables>>
                   ELSE /\ pc' = "read"
                        /\ libraries' = libs
                        /\ heap' = ReadLibraries(DOMAIN libs)
                        /\ tables' = tables \o
                               ExtractTables(ReadLibraries(DOMAIN libs), isotope_list)
    /\ UNCHANGED <<ace_variant, isotope_list, MT_E_grid, num_main_E, indexVars,
                   MT_array, ret>>

(***************************************************************************)
(* Union grid.                                                             *)
(***************************************************************************)
\* table.reactions[MT] and MT in table.reactions, for a table object
HasReaction(table, MT) == \E i \in 1..Len(table.reactions) : table.reactions[i].MT = MT

Reaction(table, MT) ==
    table.reactions[CHOOSE i \in 1..Len(table.reactions) : table.reactions[i].MT = MT]

\* a unionizer that forgets the b axis of a Watt spectrum
ReactionAxes_NoB(rxn) ==
    (IF hasattr(rxn, "ang_energy_in") THEN <<rxn.ang_energy_in>> ELSE <<>>)
    \o (IF hasattr(rxn, "energy_dist")
        THEN (IF hasattr(rxn.energy_dist, "energy_in")
              THEN <<rxn.energy_dist.energy_in>> ELSE <<>>)
          \o (IF hasattr(rxn.energy_dist, "energya_in")
              THEN <<rxn.energy_dist.energya_in>> ELSE <<>>)
        ELSE <<>>)

\* the energy axes of one reaction that _unionize folds in, in its order
ReactionAxes(rxn) ==
    (IF hasattr(rxn, "ang_energy_in") THEN <<rxn.ang_energy_in>> ELSE <<>>)
    \o (IF hasattr(rxn, "energy_dist")
        THEN (IF hasattr(rxn.energy_dist, "energy_in")
              THEN <<rxn.energy_dist.energy_in>> ELSE <<>>)
          \o (IF hasattr(rxn.energy_dist, "energya_in")
              THEN <<rxn.energy_dist.energya_in>> ELSE <<>>)
          \o (IF hasattr(rxn.energy_dist, "energyb_in")
              THEN <<rxn.energy_dist.energyb_in>> ELSE <<>>)
        ELSE <<>>)

\* the energy axes of one table that _unionize folds in, in its order
TableAxes(table) ==
    <<table.energy>>
    \o (IF hasattr(table, "nu_t_energy") THEN <<table.nu_t_energy>> ELSE <<>>)
    \o (IF hasattr(table, "nu_d_energy") THEN <<table.nu_d_energy>> ELSE <<>>)
    \o (IF hasattr(table, "nu_p_energy") THEN <<table.nu_p_energy>> ELSE <<>>)

RECURSIVE FoldAxes(_, _)
FoldAxes(grid, axes) ==
    IF axes = <<>> THEN grid
    ELSE FoldAxes(union1d(grid, Head(axes)), Tail(axes))

RECURSIVE FoldReactions(_, _)
FoldReactions(grid, rxns) ==
    IF rxns = <<>> THEN grid
    ELSE FoldReactions(FoldAxes(grid, ReactionAxes(Head(rxns))), Tail(rxns))

\* the body of the loop of _unionize for one table
UnionizeTable(grid, table) ==
    FoldReactions(FoldAxes(grid, TableAxes(table)), table.reactions)

\* print table.reactions[2].ang_energy_in at the end of the loop body
ElasticPrints(table) ==
    HasReaction(table, 2) /\ hasattr(Reaction(table, 2), "ang_energy_in")

\* the loop of _unionize from table k on: the grid when it ends, and
\* whether it ended normally
RECURSIVE UnionizeFrom(_, _, _, _)
UnionizeFrom(grid, objs, tabs, k) ==
    IF k > Len(tabs) THEN [grid |-> grid, ok |-> TRUE]
    ELSE IF tabs[k] = None THEN [grid |-> grid, ok |-> FALSE]
    ELSE LET g == UnionizeTable(grid, objs[tabs[k]])
         IN  IF ElasticPrints(objs[tabs[k]])
             THEN UnionizeFrom(g, objs, tabs, k + 1)
             ELSE [grid |-> g, ok |-> FALSE]

_unionize ==
    /\ pc = "read"
    /\ LET r == UnionizeFrom(MT_E_grid, heap, tables, 1)
       IN  /\ MT_E_grid' = r.grid
           /\ num_main_E' = IF r.ok THEN Len(r.grid) ELSE num_main_E
           /\ pc' = IF r.ok THEN "unionized" ELSE "failed"
    /\ UNCHANGED <<ace_variant, isotope_list, loadVars, indexVars, MT_array, ret>>

(***************************************************************************)
(* Reaction catalog.                                                       *)
(***************************************************************************)
\* a retention filter that forgets MT 4
Retained_Keeps4(MT) == MT < 200 /\ MT # 3 /\ MT # 5 /\ MT # 10 /\ MT # 27

\* the retention filter of _insert_reactions and _interpolate
Retained(MT) == MT < 200 /\ MT # 3 /\ MT # 4 /\ MT # 5 /\ MT # 10 /\ MT # 27

\* for MT in table.reactions, in _insert_reactions
InsertKeys(table) == [i \in 1..Len(table.reactions) |-> table.reactions[i].MT]

\* the retained reactions of a table in the order _insert_reactions meets them
GoodReactions(table) ==
    LET keys == SelectSeq(InsertKeys(table), Retained)
    IN  [i \in 1..Len(keys) |-> Reaction(table, keys[i])]

RECURSIVE Concat(_)
Concat(ss) == IF ss = <<>> THEN <<>> ELSE Head(ss) \o Concat(Tail(ss))

_insert_reactions ==
    /\ pc = "unionized"
    /\ LET tabs == [k \in 1..Len(tables) |-> heap[tables[k]]]
           good == [k \in 1..Len(tabs) |-> GoodReactions(tabs[k])]
           all  == Concat(good)
       IN  /\ reaction_numbers' = reaction_numbers
                  \o [k \in 1..Len(tabs) |-> 1]
                  \o [c \in 1..Len(all) |-> all[c].MT]
           /\ Q' = Q \o [k \in 1..Len(tabs) |-> 0] \o [c \in 1..Len(all) |-> all[c].Q]
           /\ awr' = awr \o [k \in 1..Len(tabs) |-> tabs[k].awr]
           /\ temp' = temp \o [k \in 1..Len(tabs) |-> tabs[k].temp]
           /\ num_reactions' = num_reactions + Len(all)
           /\ reaction_numbers_total' = reaction_numbers_total
                  \o [k \in 1..Len(tabs) |-> Len(good[k])]
    /\ pc' = "indexed"
    /\ UNCHANGED <<ace_variant, isotope_list, loadVars, MT_E_grid, num_main_E,
                   MT_array, ret>>

(***************************************************************************)
(* Dense cross-section table.                                              *)
(***************************************************************************)
\* an allocation with the two extents exchanged
zeros_Transposed(n_rows, n_columns) ==
    [r \in 1..n_columns |-> [c \in 1..n_rows |-> R(0)]]

\* numpy.zeros((n_rows, n_columns))
zeros(n_rows, n_columns) == [i \in 1..n_rows |-> [j \in 1..n_columns |-> R(0)]]

_allocate_arrays ==
    /\ pc = "indexed"
    /\ MT_array' = zeros(num_main_E, num_isotopes + num_reactions)
    /\ pc' = "allocated"
    /\ UNCHANGED <<ace_variant, isotope_list, loadVars, MT_E_grid, num_main_E,
                   indexVars, ret>>

\* arr[:, col] = this_array, col 0-based; arr has the rows of this_array
SetColumn(arr, col, this_array) ==
    [i \in 1..Len(arr) |-> [arr[i] EXCEPT ![col + 1] = this_array[i]]]

\* numpy.interp of the total cross section of a table onto the grid
TotalColumn(grid, table) == interp(grid, table.energy, table.sigma_t, R(0))

\* a resampler that leaves numpy.interp its default left value, fp[0]
ReactionColumn_DefaultLeft(grid, table, rxn) ==
    interp(grid, From(table.energy, rxn.IE), rxn.sigma, rxn.sigma[1])

\* numpy.interp of one reaction's cross section onto the grid
ReactionColumn(grid, table, rxn) ==
    interp(grid, From(table.energy, rxn.IE), rxn.sigma, R(0))

\* a resampler that visits the reactions in ascending MT order
InterpKeys_Ascending(table) ==
    SortedSeq({table.reactions[i].MT : i \in 1..Len(table.reactions)})

\* for MT in table.reactions, in _interpolate
InterpKeys(table) == [i \in 1..Len(table.reactions) |-> table.reactions[i].MT]

\* the inner loop of _interpolate over the keys of one table: the array and
\* MT_array_dex when it ends
RECURSIVE InterpolateReactions(_, _, _, _, _)
InterpolateReactions(arr, dex, grid, table, keys) ==
    IF keys = <<>> THEN [arr |-> arr, dex |-> dex]
    ELSE IF Retained(Head(keys))
    THEN InterpolateReactions(
             SetColumn(arr, dex, ReactionColumn(grid, table, Reaction(table, Head(keys)))),
             dex + 1, grid, table, Tail(keys))
    ELSE InterpolateReactions(arr, dex, grid, table, Tail(keys))

\* the outer loop of _interpolate from table tope_index (0-based) on
RECURSIVE InterpolateFrom(_, _, _, _, _, _)
InterpolateFrom(arr, tope_index, dex, grid, objs, tabs) ==
    IF tope_index >= Len(tabs) THEN arr
    ELSE LET table == objs[At(tabs, tope_index)]
             a1    == SetColumn(arr, tope_index, TotalColumn(grid, table))
             r     == InterpolateReactions(a1, dex, grid, table, InterpKeys(table))
         IN  InterpolateFrom(r.arr, tope_index + 1, r.dex, grid, objs, tabs)

_interpolate ==
    /\ pc = "allocated"
    /\ MT_array' = InterpolateFrom(MT_array, 0, num_isotopes, MT_E_grid, heap, tables)
    /\ pc' = "interpolated"
    /\ UNCHANGED <<ace_variant, isotope_list, loadVars, MT_E_grid, num_main_E,
                   indexVars, ret>>

(***************************************************************************)
(* Record emitters.  A record is the list both emitters return, with the   *)
(* names of the local variables it is built from; a call that raises       *)
(* returns no record and is modelled by the exception it raises.           *)
(***************************************************************************)
isotropic_tol == <<1, 100000>>

\* ascontiguousarray(None, dtype=float32) is nan: no row index, and every
\* comparison with it is false; it is kept apart from the row indices as -1
NaN == 0 - 1

\* the outcome of a call that raises
Raised(e) == [exc |-> e]

IsRecord(r) == "next_dex" \in DOMAIN r

\* rxn.threshold() of the parser: the energy at the threshold index
Threshold(table, rxn) == At(table.energy, rxn.IE)

\* a search for the first row strictly above an energy
FirstRowAbove(grid, e, default) == FirstIndex(grid, LAMBDA x : e < x, default)

\* next((i for i, x in enumerate(e <= grid) if x), default)
FirstRowReaching(grid, e, default) == FirstIndex(grid, LAMBDA x : e <= x, default)

\* upper_index and lower_index of this_E on an axis, above-last clamped
Bracket(axis, this_E) ==
    LET upper_index == FirstIndex(axis, LAMBDA x : this_E < x, Len(axis))
    IN  IF upper_index = Len(axis)
        THEN [lower |-> Len(axis) - 1, upper |-> Len(axis) - 1]
        ELSE [lower |-> upper_index - 1, upper |-> upper_index]

\* the record of the "set all to zero" blocks
ZeroRecord(law, next_dex) ==
    [lower_erg |-> 0, lower_len |-> 0, lower_law |-> law, lower_intt |-> 0,
     lower_var |-> <<R(0)>>, lower_pdf |-> <<R(0)>>, lower_cdf |-> <<R(0)>>,
     upper_erg |-> 0, upper_len |-> 0, upper_law |-> law, upper_intt |-> 0,
     upper_var |-> <<R(0)>>, upper_pdf |-> <<R(0)>>, upper_cdf |-> <<R(0)>>,
     next_dex  |-> next_dex]

\* a next index that is the first row past upper_erg
NextDex_Past(grid, axis, b, upper_erg) ==
    IF b.upper = b.lower /\ b.lower = Len(axis) - 1
    THEN Len(grid)
    ELSE FirstIndex(grid, LAMBDA x : upper_erg < x, Len(grid))

\* next index of the tabulated branches: past the last bin, or the first row
\* reaching upper_erg
NextDex(grid, axis, b, upper_erg) ==
    IF b.upper = b.lower /\ b.lower = Len(axis) - 1
    THEN Len(grid)
    ELSE FirstRowReaching(grid, upper_erg, Len(grid))

\* numpy.zeros(x.shape)
ZerosLike(x) == [i \in 1..Len(x) |-> R(0)]

\* [0, len after the 1st section, len after the 2nd, ...] of muxed sections
RECURSIVE LenTo(_, _)
LenTo(ss, n) == IF n = 0 THEN 0 ELSE LenTo(ss, n - 1) + Len(ss[n])

MuxOffsets(ss) == [i \in 1..(Len(ss) + 1) |-> R(LenTo(ss, i - 1))]

MaxOf(a, b) == IF a >= b THEN a ELSE b
MinOf(a, b) == IF a <= b THEN a ELSE b

\* the bracket of this_E on one nu axis: the default None of next() is -1
\* here, then the clamp
NuBracket(axis, this_E) ==
    LET upper_index == FirstIndex(axis, LAMBDA x : this_E < x, -1)
    IN  IF upper_index = -1
        THEN [lower |-> Len(axis) - 1, upper |-> Len(axis) - 1, above_last |-> TRUE]
        ELSE [lower |-> upper_index - 1, upper |-> upper_index, above_last |-> FALSE]

\* lower_erg and upper_erg of the fission branch: the narrowest interval
FissionErgs(table, t, d) ==
    [lower |-> MaxOf(PyAt(table.nu_t_energy, t.lower), PyAt(table.nu_d_energy, d.lower)),
     upper |-> MinOf(PyAt(table.nu_t_energy, t.upper), PyAt(table.nu_d_energy, d.upper))]

\* next index of the fission branch
FissionNextDex(grid, t, d, upper_erg) ==
    IF d.above_last /\ t.above_last
    THEN Len(grid)
    ELSE FirstRowReaching(grid, upper_erg, Len(grid))

\* nu on [lower_erg, upper_erg] from one axis
NuOnInterval(value, energy, b, erg) ==
    LET lower_grid == PyAt(value, b.lower)
        upper_grid == PyAt(value, b.upper)
        lower_e    == PyAt(energy, b.lower)
        upper_e    == PyAt(energy, b.upper)
        At_(e) == RAdd(lower_grid, RMul(Rat(e - lower_e, upper_e - lower_e),
                                       RSub(upper_grid, lower_grid)))
    IN  IF b.above_last
        THEN [lower |-> upper_grid, upper |-> upper_grid]
        ELSE [lower |-> At_(erg.lower), upper |-> At_(erg.upper)]

\* INT of a nu axis at an index: a scalar, or one code per point
InterpINT(code, index) == IF code.scalar THEN code.v ELSE PyAt(code.v, index)

RCumsum(s) ==
    LET RECURSIVE Acc(_)
        Acc(n) == IF n = 1 THEN s[1] ELSE RAdd(Acc(n - 1), s[n])
    IN  [i \in 1..Len(s) |-> Acc(i)]

\* the fission branch of _get_scatter_data
FissionScatter(grid, table, rxn, this_E) ==
    LET t == NuBracket(table.nu_t_energy, this_E)
        d == NuBracket(table.nu_d_energy, this_E)
    IN  IF t.lower < 0
        THEN ZeroRecord(0, FirstRowReaching(grid,
                 MaxOf(Threshold(table, rxn), table.nu_t_energy[1]), NaN))
        ELSE IF ~table.nu_t_interp_INT.scalar
        THEN Raised("NameError")
        ELSE
        LET erg   == FissionErgs(table, t, d)
            nu_t  == NuOnInterval(table.nu_t_value, table.nu_t_energy, t, erg)
            nu_d  == NuOnInterval(table.nu_d_value, table.nu_d_energy, d, erg)
            dist  == table.nu_d_energy_dist
            prob  == table.nu_d_precursor_prob
            pre_law == dist[1].law
            Intt(side, tb, db) ==
                InterpINT(table.nu_t_interp_INT, tb)
                + InterpINT(table.nu_p_interp_INT, db) * 10
                + dist[1].intt[side] * 100 + pre_law * 1000
            Mux(side) ==
                Concat([g \in 1..Len(dist) |-> dist[g].energy_out[side]])
                \o Concat([g \in 1..Len(dist) |-> dist[g].cdf[side]])
                \o Concat([g \in 1..Len(dist) |-> dist[g].pdf[side]])
            Offsets(side) == MuxOffsets([g \in 1..Len(dist) |-> dist[g].energy_out[side]])
        IN  [lower_erg |-> erg.lower, lower_len |-> <<nu_t.lower, nu_d.lower>>,
             lower_law |-> -1, lower_intt |-> Intt(1, t.lower, d.lower),
             lower_var |-> RCumsum([g \in 1..6 |-> prob[g][1]]),
             lower_pdf |-> Offsets(1), lower_cdf |-> Mux(1),
             upper_erg |-> erg.upper, upper_len |-> <<nu_t.upper, nu_d.upper>>,
             upper_law |-> -1, upper_intt |-> Intt(2, t.upper, d.upper),
             upper_var |-> RCumsum([g \in 1..6 |-> prob[g][2]]),
             upper_pdf |-> Offsets(2), upper_cdf |-> Mux(2),
             next_dex  |-> FissionNextDex(grid, t, d, erg.upper)]

\* law of one side of the tabulated angular branch: the isotropy shortcut
AngularLaw(var, cdf) ==
    IF Len(var) = 3 /\ RLeq(RAbs(RSub(cdf[2], Half)), isotropic_tol) THEN 0 ELSE 3

\* the ang_energy_in branch of _get_scatter_data
AngularScatter(grid, table, rxn, this_E) ==
    LET axis == rxn.ang_energy_in
        b    == Bracket(axis, this_E)
    IN  IF b.lower < 0
        THEN ZeroRecord(-2, FirstRowReaching(grid,
                 MaxOf(Threshold(table, rxn), axis[1]), NaN))
        ELSE
        [lower_erg |-> At(axis, b.lower), lower_len |-> Len(At(rxn.ang_cos, b.lower)),
         lower_law |-> AngularLaw(At(rxn.ang_cos, b.lower), At(rxn.ang_cdf, b.lower)),
         lower_intt |-> At(rxn.ang_intt, b.lower),
         lower_var |-> At(rxn.ang_cos, b.lower), lower_pdf |-> At(rxn.ang_pdf, b.lower),
         lower_cdf |-> At(rxn.ang_cdf, b.lower),
         upper_erg |-> At(axis, b.upper), upper_len |-> Len(At(rxn.ang_cos, b.upper)),
         upper_law |-> AngularLaw(At(rxn.ang_cos, b.upper), At(rxn.ang_cdf, b.upper)),
         upper_intt |-> At(rxn.ang_intt, b.upper),
         upper_var |-> At(rxn.ang_cos, b.upper), upper_pdf |-> At(rxn.ang_pdf, b.upper),
         upper_cdf |-> At(rxn.ang_cdf, b.upper),
         next_dex  |-> NextDex(grid, axis, b, At(axis, b.upper))]

\* the energy_in + a_dist_cdf branch of _get_scatter_data
JointScatter(grid, table, rxn, this_E) ==
    LET ed   == rxn.energy_dist
        axis == ed.energy_in
        b    == Bracket(axis, this_E)
        Intt(idx) == IF hasattr(ed, "intt") THEN At(ed.a_dist_intt, idx)[1] ELSE 2
        Mux(idx) ==
            Concat(At(ed.a_dist_mu_out, idx))
            \o Concat([i \in 1..Len(At(ed.a_dist_mu_out, idx)) |-> At(ed.a_dist_cdf, idx)[i]])
            \o Concat([i \in 1..Len(At(ed.a_dist_mu_out, idx)) |-> At(ed.a_dist_pdf, idx)[i]])
    IN  IF b.lower < 0
        THEN ZeroRecord(-2, FirstRowReaching(grid,
                 MaxOf(Threshold(table, rxn), axis[1]), NaN))
        ELSE IF Len(At(ed.a_dist_mu_out, b.lower)) # Len(At(ed.energy_out, b.lower))
        THEN Raised("AssertionError")
        ELSE
        [lower_erg |-> At(axis, b.lower), lower_len |-> Len(Mux(b.lower)) \div 3,
         lower_law |-> ed.law, lower_intt |-> Intt(b.lower),
         lower_var |-> <<R(0)>>, lower_pdf |-> MuxOffsets(At(ed.a_dist_mu_out, b.lower)),
         lower_cdf |-> Mux(b.lower),
         upper_erg |-> At(axis, b.upper), upper_len |-> Len(Mux(b.upper)) \div 3,
         upper_law |-> ed.law, upper_intt |-> Intt(b.upper),
         upper_var |-> <<R(0)>>, upper_pdf |-> MuxOffsets(At(ed.a_dist_mu_out, b.upper)),
         upper_cdf |-> Mux(b.upper),
         next_dex  |-> NextDex(grid, axis, b, At(axis, b.upper))]

\* the energy_in branch of _get_scatter_data
OutgoingScatter(grid, table, rxn, this_E) ==
    LET ed   == rxn.energy_dist
        axis == ed.energy_in
        b    == Bracket(axis, this_E)
        Intt(idx) == IF hasattr(ed, "intt") THEN At(ed.intt, idx) ELSE 2
        Var(idx) == IF hasattr(ed, "ang") THEN At(ed.ang, idx)
                    ELSE IF hasattr(ed, "var") THEN ZerosLike(At(ed.var, idx))
                    ELSE <<R(0)>>
        Cdf(idx) == IF hasattr(ed, "frac") THEN At(ed.frac, idx)
                    ELSE IF hasattr(ed, "cdf") THEN ZerosLike(At(ed.cdf, idx))
                    ELSE <<R(0)>>
        Pdf(idx) == IF hasattr(ed, "pdf") THEN ZerosLike(At(ed.pdf, idx)) ELSE <<R(0)>>
    IN  IF b.lower < 0
        THEN ZeroRecord(-2, FirstRowReaching(grid,
                 MaxOf(Threshold(table, rxn), axis[1]), NaN))
        ELSE
        [lower_erg |-> At(axis, b.lower), lower_len |-> Len(Var(b.lower)),
         lower_law |-> ed.law, lower_intt |-> Intt(b.lower),
         lower_var |-> Var(b.lower), lower_pdf |-> Pdf(b.lower), lower_cdf |-> Cdf(b.lower),
         upper_erg |-> At(axis, b.upper), upper_len |-> Len(Var(b.upper)),
         upper_law |-> ed.law, upper_intt |-> Intt(b.upper),
         upper_var |-> Var(b.upper), upper_pdf |-> Pdf(b.upper), upper_cdf |-> Cdf(b.upper),
         next_dex  |-> NextDex(grid, axis, b, At(axis, b.upper))]

\* the "no distributions" branch of _get_scatter_data
IsotropicScatter(grid, rxn) ==
    LET law == IF hasattr(rxn, "energy_dist") THEN rxn.energy_dist.law ELSE 0
    IN  [lower_erg |-> grid[1], lower_len |-> 3, lower_law |-> law, lower_intt |-> 1,
         lower_var |-> Cos3, lower_pdf |-> Flat3, lower_cdf |-> IsoCdf,
         upper_erg |-> grid[Len(grid)], upper_len |-> 3, upper_law |-> law,
         upper_intt |-> 1,
         upper_var |-> Cos3, upper_pdf |-> Flat3, upper_cdf |-> IsoCdf,
         next_dex  |-> Len(grid)]

\* which case of _get_scatter_data a reaction takes
ScatterBranch(table, rxn) ==
    IF hasattr(table, "nu_t_energy") /\ rxn.multiplicity > 10 THEN "B1"
    ELSE IF hasattr(rxn, "ang_energy_in") THEN "B2"
    ELSE IF /\ hasattr(rxn, "energy_dist")
            /\ hasattr(rxn.energy_dist, "energy_in")
            /\ hasattr(rxn.energy_dist, "a_dist_cdf") THEN "B3"
    ELSE IF hasattr(rxn, "energy_dist") /\ hasattr(rxn.energy_dist, "energy_in") THEN "B4"
    ELSE "B5"

\* a lookup that also takes the column at which a cumulative count is met
IsotopeOf_AtOrBelow(totals, n_isotopes, col) ==
    argmax([k \in 1..Len(totals) |-> (col - n_isotopes) <= cumsum(totals)[k]])

\* "find the isotope we are in": 0-based index of the table of a column
IsotopeOf(totals, n_isotopes, col) ==
    argmax([k \in 1..Len(totals) |-> (col - n_isotopes) < cumsum(totals)[k]])

\* _get_scatter_data(row, col) on the table objects objs
ScatterData(objs, row, col) ==
    LET table  == objs[At(tables, IsotopeOf(reaction_numbers_total, num_isotopes, col))]
        MTnum  == At(reaction_numbers, col)
        this_E == At(MT_E_grid, row)
    IN  IF ~HasReaction(table, MTnum) THEN Raised("KeyError")
        ELSE LET rxn == Reaction(table, MTnum)
                 br  == ScatterBranch(table, rxn)
             IN  CASE br = "B1" -> FissionScatter(MT_E_grid, table, rxn, this_E)
                   [] br = "B2" -> AngularScatter(MT_E_grid, table, rxn, this_E)
                   [] br = "B3" -> JointScatter(MT_E_grid, table, rxn, this_E)
                   [] br = "B4" -> OutgoingScatter(MT_E_grid, table, rxn, this_E)
                   [] OTHER     -> IsotropicScatter(MT_E_grid, rxn)

Rows == 0..(Len(MT_E_grid) - 1)
ReactionColumns == num_isotopes..(num_isotopes + num_reactions - 1)

_get_scatter_data(row, col) ==
    /\ pc = "interpolated"
    /\ ret = NoCall
    /\ ret' = Call("_get_scatter_data", <<row, col>>, ScatterData(heap, row, col))
    /\ UNCHANGED <<ace_variant, pc, isotope_list, loadVars, MT_E_grid, num_main_E,
                   indexVars, MT_array>>

\* the law 11 preprocessing of _get_energy_data on an energy_dist object:
\* the object after it, and the exception that ended it, if any
Law11Resample(ed) ==
    LET ed1 == setattr(ed, "energy_in", union1d(ed.energya_in, ed.energyb_in))
        ed2 == setattr(ed1, "a", interp(ed1.energy_in, ed1.energya_in, ed1.a, ed1.a[1]))
        ed3 == setattr(ed2, "b", interp(ed2.energy_in, ed2.energyb_in, ed2.b, ed2.b[1]))
    IN  IF Len(ed1.a) # Len(ed1.energya_in) THEN [ed |-> ed1, exc |-> "ValueError"]
        ELSE IF Len(ed2.b) # Len(ed2.energyb_in) THEN [ed |-> ed2, exc |-> "ValueError"]
        ELSE [ed |-> ed3, exc |-> None]

\* the energy_in branch of _get_energy_data, after the preprocessing
OutgoingEnergy(grid, table, rxn, ed, this_E) ==
    LET axis == ed.energy_in
        b    == Bracket(axis, this_E)
        Intt(idx) == IF hasattr(ed, "intt") THEN At(ed.intt, idx) ELSE 2
        Var(idx) == IF hasattr(ed, "energy_out") THEN At(ed.energy_out, idx)
                    ELSE IF hasattr(ed, "T") THEN <<At(ed.T, idx)>>
                    ELSE <<At(ed.a, idx)>>
        Pdf(idx) == IF hasattr(ed, "energy_out") THEN At(ed.pdf, idx)
                    ELSE IF hasattr(ed, "T") THEN <<R(0)>>
                    ELSE <<ed.U>>
        Cdf(idx) == IF hasattr(ed, "energy_out") THEN At(ed.cdf, idx)
                    ELSE IF hasattr(ed, "T") THEN <<ed.U>>
                    ELSE <<At(ed.b, idx)>>
    IN  IF b.lower < 0
        THEN ZeroRecord(0, FirstRowReaching(grid,
                 MaxOf(Threshold(table, rxn), axis[1]), NaN))
        ELSE IF ~(hasattr(ed, "energy_out") \/ hasattr(ed, "T") \/ hasattr(ed, "a"))
        THEN \* "UNHANDLED ENERGY DIST CONTENTS" is printed, then len(lower_var)
             Raised("UnboundLocalError")
        ELSE
        [lower_erg |-> At(axis, b.lower), lower_len |-> Len(Var(b.lower)),
         lower_law |-> ed.law, lower_intt |-> Intt(b.lower),
         lower_var |-> Var(b.lower), lower_pdf |-> Pdf(b.lower), lower_cdf |-> Cdf(b.lower),
         upper_erg |-> At(axis, b.upper), upper_len |-> Len(Var(b.upper)),
         upper_law |-> ed.law, upper_intt |-> Intt(b.upper),
         upper_var |-> Var(b.upper), upper_pdf |-> Pdf(b.upper), upper_cdf |-> Cdf(b.upper),
         next_dex  |-> NextDex(grid, axis, b, At(axis, b.upper))]

\* the "no distributions" branch of _get_energy_data
NoEnergy(grid, rxn) ==
    LET law == IF hasattr(rxn, "energy_dist") THEN rxn.energy_dist.law ELSE 0
    IN  [lower_erg |-> grid[1], lower_len |-> 1, lower_law |-> law, lower_intt |-> 1,
         lower_var |-> <<R(0)>>, lower_pdf |-> <<R(0)>>, lower_cdf |-> <<R(0)>>,
         upper_erg |-> grid[Len(grid)], upper_len |-> 1, upper_law |-> law,
         upper_intt |-> 1,
         upper_var |-> <<R(0)>>, upper_pdf |-> <<R(0)>>, upper_cdf |-> <<R(0)>>,
         next_dex  |-> Len(grid)]

\* whether _get_energy_data takes its energy_in branch for a reaction
HasEnergyIn(rxn) ==
    /\ hasattr(rxn, "energy_dist")
    /\ (hasattr(rxn.energy_dist, "energy_in") \/ hasattr(rxn.energy_dist, "energya_in"))

\* objs with rxn.energy_dist = ed for reaction MTnum of the table named name
WithEnergyDist(objs, name, MTnum, ed) ==
    LET i == CHOOSE i \in 1..Len(objs[name].reactions) : objs[name].reactions[i].MT = MTnum
    IN  [objs EXCEPT ![name].reactions[i].energy_dist = ed]

\* _get_energy_data(row, col) on the table objects objs: what it returns
\* and the table objects when it ends
EnergyData(objs, row, col) ==
    LET name   == At(tables, IsotopeOf(reaction_numbers_total, num_isotopes, col))
        table  == objs[name]
        MTnum  == At(reaction_numbers, col)
        this_E == At(MT_E_grid, row)
    IN  IF ~HasReaction(table, MTnum) THEN [val |-> Raised("KeyError"), objs |-> objs]
        ELSE LET rxn == Reaction(table, MTnum)
             IN  IF ~HasEnergyIn(rxn)
                 THEN [val |-> NoEnergy(MT_E_grid, rxn), objs |-> objs]
                 ELSE IF ~hasattr(rxn.energy_dist, "energya_in")
                 THEN [val  |-> OutgoingEnergy(MT_E_grid, table, rxn, rxn.energy_dist, this_E),
                       objs |-> objs]
                 ELSE LET r == Law11Resample(rxn.energy_dist)
                      IN  [val  |-> IF r.exc # None THEN Raised(r.exc)
                                    ELSE OutgoingEnergy(MT_E_grid, table, rxn, r.ed, this_E),
                           objs |-> WithEnergyDist(objs, name, MTnum, r.ed)]

_get_energy_data(row, col) ==
    /\ pc = "interpolated"
    /\ ret = NoCall
    /\ LET r == EnergyData(heap, row, col)
       IN  /\ ret' = Call("_get_energy_data", <<row, col>>, r.val)
           /\ heap' = r.objs
    /\ UNCHANGED <<ace_variant, pc, isotope_list, datapath, xsdirstring, libraries,
                   tables, num_isotopes, MT_E_grid, num_main_E, indexVars, MT_array>>

(***************************************************************************)
(* Accessors.  The uint32 and float32 casts of the returned arrays are the *)
(* identity on the values of the model and are not modelled.               *)
(***************************************************************************)
\* a relabeling that shifts only MT 38 among the fission channels
MTRemap_Only38(m) ==
    IF m = 2 THEN 50
    ELSE IF m = 38 THEN m + 800
    ELSE IF m > 100 THEN m + 1000
    ELSE m

\* the relabeling of one MT number in _get_MT_numbers_pointer
MTRemap(m) ==
    IF m = 2 THEN 50
    ELSE IF (m >= 18 /\ m <= 21) \/ m = 38 THEN m + 800
    ELSE IF m > 100 THEN m + 1000
    ELSE m

\* an accessor that hands out the catalog as it is
MTNumbers_Catalog(numbers) == numbers

MTNumbers(numbers) == [n \in 1..Len(numbers) |-> MTRemap(numbers[n])]

\* an accessor that returns the cumulative sums without the leading zero
MTNumbersTotal_NoZero(numbers) == cumsum(numbers)

\* numpy.insert(numpy.cumsum(numbers), 0, 0)
MTNumbersTotal(numbers) == <<0>> \o cumsum(numbers)

Lengths == <<num_isotopes, num_main_E, num_reactions>>

Accessors ==
    {"_get_MT_numbers_pointer", "_get_MT_numbers_total_pointer",
     "_get_length_numbers_pointer"}

\* the three accessors above: each returns a new array and changes nothing
Accessor(fn) ==
    /\ pc = "interpolated"
    /\ ret = NoCall
    /\ ret' = Call(fn, <<>>,
                   CASE fn = "_get_MT_numbers_pointer" -> MTNumbers(reaction_numbers)
                     [] fn = "_get_MT_numbers_total_pointer" ->
                            MTNumbersTotal(reaction_numbers_total)
                     [] fn = "_get_length_numbers_pointer" -> Lengths)
    /\ UNCHANGED <<ace_variant, pc, isotope_list, loadVars, MT_E_grid, num_main_E,
                   indexVars, MT_array>>

\* the caller takes the value returned to it and goes on
Return ==
    /\ ret # NoCall
    /\ ret' = NoCall
    /\ UNCHANGED <<ace_variant, pc, isotope_list, loadVars, MT_E_grid, num_main_E,
                   indexVars, MT_array>>

Next ==
    \/ \E list \in IsotopeLists : InitFromString(list)
    \/ \E isotope \in Nuclides : AddIsotope(isotope)
    \/ \E datapath_in \in DatapathInputs : _read_tables(datapath_in)
    \/ _unionize
    \/ _insert_reactions
    \/ _allocate_arrays
    \/ _interpolate
    \/ \E row \in Rows, col \in ReactionColumns : _get_scatter_data(row, col)
    \/ \E row \in Rows, col \in ReactionColumns : _get_energy_data(row, col)
    \/ \E fn \in Accessors : Accessor(fn)
    \/ Return

Spec == Init /\ [][Next]_vars

(***************************************************************************)
(* Properties.  N is the number of nuclides, R the number of retained      *)
(* reactions, E_u the length of the union grid.                            *)
(***************************************************************************)
N == Len(tables)
E_u == Len(MT_E_grid)

\* No call is returning.  A returning call differs from the state Return
\* leads to in ret alone, so the properties of the other variables are
\* stated for the states between calls: they cover every value the other
\* variables ever take.
BetweenCalls == ret = NoCall

Loaded == BetweenCalls /\ pc \in {"read", "unionized", "indexed", "allocated", "interpolated"}
Unionized == BetweenCalls /\ pc \in {"unionized", "indexed", "allocated", "interpolated"}
Indexed == BetweenCalls /\ pc \in {"indexed", "allocated", "interpolated"}
Resampled == BetweenCalls /\ pc = "interpolated"

\* the table object of nuclide k (0-based) of the user list
TableOf(k) == heap[At(tables, k)]

\* the table objects as the load phase left them
LoadedTables == ReadLibraries(DOMAIN libraries)

\* the nuclide (0-based) the catalog gives column col >= N to: the one whose
\* block of retained reactions the column falls in
ColumnOwner(col) ==
    CHOOSE k \in 0..(N - 1) :
        /\ SumTo(reaction_numbers_total, k) <= col - N
        /\ col - N < SumTo(reaction_numbers_total, k + 1)

\* the retained MT numbers of a table in the order its mapping presents them
RetainedKeys(table) ==
    SelectSeq([i \in 1..Len(table.reactions) |-> table.reactions[i].MT],
              LAMBDA m : m < 200 /\ m \notin {3, 4, 5, 10, 27})

StrictlyIncreasing(s) == \A i \in 1..(Len(s) - 1) : s[i] < s[i + 1]

\* the threshold energy of column col (0-based) of the dense table
ColumnThreshold(col) ==
    IF col < N THEN TableOf(col).energy[1]
    ELSE LET table == TableOf(ColumnOwner(col))
         IN  At(table.energy, Reaction(table, At(reaction_numbers, col)).IE)

\* C1: after _interpolate, sigma[i,j] = 0 for every row i and column j with
\* E*[i] strictly below the threshold energy of column j (energy[IE] of the
\* owning nuclide for a reaction column, energy[0] for a total column).
C1_ZeroBelowThreshold ==
    Resampled =>
        \A i \in 0..(E_u - 1), j \in 0..(N + num_reactions - 1) :
            At(MT_E_grid, i) < ColumnThreshold(j) => At(At(MT_array, i), j) = R(0)

\* a resampled table with a reaction column that is zero on a row below its
\* threshold and non-zero on a later row
C1_Witness ==
    /\ Resampled
    /\ \E i \in 0..(E_u - 1), j \in N..(N + num_reactions - 1) :
          /\ At(MT_E_grid, i) < ColumnThreshold(j)
          /\ ColumnThreshold(j) > TableOf(ColumnOwner(j)).energy[1]
          /\ At(At(MT_array, i), j) = R(0)
          /\ \E i2 \in (i + 1)..(E_u - 1) : At(At(MT_array, i2), j) # R(0)

\* every energy of every axis of a table that the union grid has to hold
AllEnergies(table) ==
    Range(table.energy)
    \cup (IF "nu_t_energy" \in DOMAIN table THEN Range(table.nu_t_energy) ELSE {})
    \cup (IF "nu_d_energy" \in DOMAIN table THEN Range(table.nu_d_energy) ELSE {})
    \cup (IF "nu_p_energy" \in DOMAIN table THEN Range(table.nu_p_energy) ELSE {})
    \cup UNION {
           (IF "ang_energy_in" \in DOMAIN rxn THEN Range(rxn.ang_energy_in) ELSE {})
           \cup (IF "energy_dist" \in DOMAIN rxn
                 THEN UNION {Range(rxn.energy_dist[f]) :
                        f \in DOMAIN rxn.energy_dist
                              \cap {"energy_in", "energya_in", "energyb_in"}}
                 ELSE {})
           : rxn \in Range(table.reactions)}

\* C2: after _unionize the union grid is strictly increasing, holds every
\* energy of every axis of every loaded table (the axes of the reactions the
\* retention filter drops included), and num_main_E is its length.
C2_UnionGrid ==
    Unionized =>
        /\ StrictlyIncreasing(MT_E_grid)
        /\ \A k \in 0..(N - 1) : AllEnergies(TableOf(k)) \subseteq Range(MT_E_grid)
        /\ num_main_E = Len(MT_E_grid)

\* a grid of two nuclides that holds an energy found only on the angular
\* axis of a dropped reaction and one found only on a b axis
C2_Witness ==
    /\ pc = "unionized"
    /\ N = 2
    /\ \E k \in 0..(N - 1) : \E rxn \in Range(TableOf(k).reactions) :
          /\ ~Retained(rxn.MT)
          /\ "ang_energy_in" \in DOMAIN rxn
          /\ \E e \in Range(rxn.ang_energy_in) :
                e \in Range(MT_E_grid) /\ e \notin Range(TableOf(k).energy)
    /\ \E k \in 0..(N - 1) : \E rxn \in Range(TableOf(k).reactions) :
          /\ "energy_dist" \in DOMAIN rxn
          /\ "energyb_in" \in DOMAIN rxn.energy_dist
          /\ Range(rxn.energy_dist.energyb_in) # Range(rxn.energy_dist.energya_in)

\* the table an ACE file holds under a name, or None
FoundIn(file, tope) ==
    IF \E t \in AceFiles(ace_variant)[file] : t.name = tope THEN tope ELSE None

Block(k) ==
    (N + SumTo(reaction_numbers_total, k))..(N + SumTo(reaction_numbers_total, k + 1) - 1)

\* what every reading of C8 shares: N sentinels (MT 1, Q 0), then exactly
\* the retained reactions nuclide by nuclide
CatalogShape ==
    /\ Len(reaction_numbers) = N + num_reactions
    /\ Len(Q) = N + num_reactions
    /\ Len(reaction_numbers_total) = N
    /\ SumTo(reaction_numbers_total, N) = num_reactions
    /\ \A k \in 0..(N - 1) :
          /\ At(reaction_numbers, k) = 1
          /\ At(Q, k) = 0
          /\ {At(reaction_numbers, c) : c \in Block(k)} = Range(RetainedKeys(TableOf(k)))
          /\ Cardinality(Block(k)) = Len(RetainedKeys(TableOf(k)))
          /\ \A c \in Block(k) :
                At(Q, c) = Reaction(TableOf(k), At(reaction_numbers, c)).Q

SigmaAt(table, MT, e) ==
    LET rxn == Reaction(table, MT)
    IN  interp1(e, From(table.energy, rxn.IE), rxn.sigma, R(0),
                rxn.sigma[Len(rxn.sigma)])

\* C9: after index, allocate and resample, column k < N holds the total
\* cross section of nuclide k, and column c in [N, N+R) holds the cross
\* section of the reaction (nuclide, MT) the catalog lists at position c.
C9_ColumnAlignment ==
    Resampled =>
        /\ Len(MT_array) = E_u
        /\ \A i \in 0..(E_u - 1) :
              /\ Len(At(MT_array, i)) = N + num_reactions
              /\ \A k \in 0..(N - 1) :
                    At(At(MT_array, i), k) =
                        interp1(At(MT_E_grid, i), TableOf(k).energy, TableOf(k).sigma_t,
                                R(0), TableOf(k).sigma_t[Len(TableOf(k).sigma_t)])
              /\ \A c \in N..(N + num_reactions - 1) :
                    /\ HasReaction(TableOf(ColumnOwner(c)), At(reaction_numbers, c))
                    /\ At(At(MT_array, i), c) =
                           SigmaAt(TableOf(ColumnOwner(c)), At(reaction_numbers, c),
                                   At(MT_E_grid, i))

\* a resampled table of two nuclides whose mappings present their keys in
\* descending order and whose reaction columns differ from one another
C9_Witness ==
    /\ Resampled
    /\ N = 2
    /\ ace_variant.rev
    /\ \A c, d \in N..(N + num_reactions - 1) :
          c # d => \E i \in 0..(E_u - 1) : At(At(MT_array, i), c) # At(At(MT_array, i), d)

\* C10: the emitted cumulative retained-reaction vector has length N+1, is
\* non-decreasing, starts with 0 and ends with R, the third element of the
\* length triple.
C10_CumulativeCounts ==
    (ret.fn = "_get_MT_numbers_total_pointer" =>
        /\ Len(ret.val) = N + 1
        /\ \A i \in 1..N : ret.val[i] <= ret.val[i + 1]
        /\ ret.val[1] = 0
        /\ ret.val[N + 1] = num_reactions)
    /\ (ret.fn = "_get_length_numbers_pointer" =>
        ret.val[3] = SumTo(reaction_numbers_total, N))

\* the vector has been emitted for two nuclides with retained reactions
C10_Witness ==
    /\ ret.fn = "_get_MT_numbers_total_pointer"
    /\ N = 2
    /\ 0 < ret.val[2]
    /\ ret.val[2] < ret.val[3]

(***************************************************************************)
(* Properties of the record emitters, stated of the call that is           *)
(* returning: ret holds the emitter, its (row, col) and what it returned.  *)
(***************************************************************************)
Emitters == {"_get_scatter_data", "_get_energy_data"}

\* an emitter is returning a record
Emitted == ret.fn \in Emitters /\ IsRecord(ret.val)

RetRow == ret.args[1]
RetCol == ret.args[2]

\* the table and the reaction the returning emitter looked up
RetTable == heap[At(tables, IsotopeOf(reaction_numbers_total, num_isotopes, RetCol))]
RetRxn == Reaction(RetTable, At(reaction_numbers, RetCol))

\* the branch of the scatter emitter the returning call took
RetBranch == IF ret.fn = "_get_scatter_data" THEN ScatterBranch(RetTable, RetRxn) ELSE "E"

\* the one axis the returning call bracketed its energy on; <<>> if it took
\* the fission branch (two axes) or a branch with no distribution
RetAxis ==
    IF ret.fn = "_get_scatter_data"
    THEN (IF RetBranch = "B2" THEN RetRxn.ang_energy_in
          ELSE IF RetBranch \in {"B3", "B4"} THEN RetRxn.energy_dist.energy_in
          ELSE <<>>)
    ELSE (IF HasEnergyIn(RetRxn) THEN RetRxn.energy_dist.energy_in ELSE <<>>)

\* the bracket indices the same call yields at row i
BracketAt(i) == Bracket(RetAxis, At(MT_E_grid, i))

\* C3: every scatter or energy record emitted for a row r has next_dex > r
\* or next_dex = E_u, in every branch.
C3_NextDexAdvances ==
    Emitted => (ret.val.next_dex > RetRow \/ ret.val.next_dex = E_u)

\* n is the smallest row at or after r whose bracket differs from that of
\* r, E_u when there is none
SmallestRowOfNextBracket(r, n) ==
    /\ \A i \in r..(n - 1) : BracketAt(i) = BracketAt(r)
    /\ n < E_u => BracketAt(n) # BracketAt(r)
    /\ n <= E_u
    /\ At(MT_E_grid, r) >= RetAxis[Len(RetAxis)] => n = E_u

WaitsFor == MaxOf(Threshold(RetTable, RetRxn), RetAxis[1])

C5_EmittersReadOnly ==
    [][(ret = NoCall /\ ret'.fn \in Emitters) =>
          /\ heap' = heap
          /\ UNCHANGED <<tables, libraries, num_isotopes, MT_E_grid, num_main_E,
                         reaction_numbers, Q, awr, temp, reaction_numbers_total,
                         num_reactions, MT_array>>]_vars

\* C6: what scatter(row, col) and energy(row, col) return is a function of
\* the state the resample phase left, whatever emitter calls were made
\* before.
C6_EmittersPure ==
    /\ ret.fn = "_get_scatter_data" =>
          ret.val = ScatterData(LoadedTables, RetRow, RetCol)
    /\ ret.fn = "_get_energy_data" =>
          ret.val = EnergyData(LoadedTables, RetRow, RetCol).val

(***************************************************************************)
(* The reaction numbers handed to the transport code.                      *)
(***************************************************************************)
\* the returning call is _get_MT_numbers_pointer
NumbersEmitted == ret.fn = "_get_MT_numbers_pointer"

FissionChannels == {18, 19, 20, 21, 38}

KeysOf(table) == [i \in 1..Len(table.reactions) |-> table.reactions[i].MT]

\* one nuclide whose reactions have the MTs 2, 3, 4, 16, 102 and 207
OneNuclideSixMTs ==
    /\ pc \in {"indexed", "allocated", "interpolated"}
    /\ N = 1
    /\ tables[1] # None
    /\ Range(KeysOf(TableOf(0))) = {2, 3, 4, 16, 102, 207}

\* the part of a catalog-shaped vector after the N sentinels
AfterSentinels(s) == From(s, N)

Unmatched(tope) == \A i \in 1..Len(XsdirLines) : XsdirLines[i].id # tope

\* _read_tables has opened the xsdir file and gone through the user's list
ResolveRan == pc \notin {"new", "exited"}

\* C13: when a nuclide of the list matches no line of the xsdir text, the
\* prepare phase ends at its resolution: nothing is registered or loaded for
\* it, no table is appended and no later phase runs.
C13_NuclideNotFound ==
    \A k \in 1..Len(isotope_list) :
        (ResolveRan /\ Unmatched(isotope_list[k])) =>
            /\ pc = "failed"
            /\ tables = <<>>
            /\ heap = EmptyMap
            /\ \A p \in DOMAIN libraries : isotope_list[k] \notin Range(libraries[p])

\* the failure the emitters are to report for a record they cannot build
EmissionFailure(kind, nuclide, MT, row, col) ==
    [exc |-> kind, nuclide |-> nuclide, MT |-> MT, row |-> row, col |-> col]

\* the returning call is energy(row, col) on a reaction whose energy_dist has
\* an incident-energy axis reached by the row and no payload the emitter
\* knows
NoKnownPayload ==
    /\ ret.fn = "_get_energy_data"
    /\ HasReaction(RetTable, At(reaction_numbers, RetCol))
    /\ HasEnergyIn(RetRxn)
    /\ hasattr(RetRxn.energy_dist, "energy_in")
    /\ At(MT_E_grid, RetRow) >= RetRxn.energy_dist.energy_in[1]
    /\ ~hasattr(RetRxn.energy_dist, "energy_out")
    /\ ~hasattr(RetRxn.energy_dist, "T")
    /\ ~hasattr(RetRxn.energy_dist, "a")

\* C14: energy(row, col) on an energy_dist with energy_in and none of
\* energy_out, T, a, at an energy at or above the first energy_in, returns
\* no record and fails with UnhandledEnergyDist carrying the nuclide index,
\* the MT, the row and the column.
C14_UnhandledEnergyDist ==
    NoKnownPayload =>
        /\ ~IsRecord(ret.val)
        /\ ret.val = EmissionFailure("UnhandledEnergyDist",
                         IsotopeOf(reaction_numbers_total, num_isotopes, RetCol),
                         At(reaction_numbers, RetCol), RetRow, RetCol)

\* the returning call is scatter(row, col) in the joint angle-energy branch
\* at an energy the incident-energy axis reaches
JointCall ==
    /\ ret.fn = "_get_scatter_data"
    /\ RetBranch = "B3"
    /\ BracketAt(RetRow).lower >= 0

\* len(a_dist_mu_out[idx]) == len(energy_out[idx])
LengthsAgree(ed, idx) == Len(At(ed.a_dist_mu_out, idx)) = Len(At(ed.energy_out, idx))

\* the failed assert of branch B3 is the report of a length mismatch
LengthMismatch == Raised("AssertionError")

\* C15: in branch B3 a record is returned only if a_dist_mu_out and
\* energy_out have the same length at the lower and at the upper bracket
\* index; otherwise the call fails with LengthMismatch and returns no record.
C15_LengthMismatch ==
    JointCall =>
        LET ed == RetRxn.energy_dist
            b  == BracketAt(RetRow)
        IN  IF LengthsAgree(ed, b.lower) /\ LengthsAgree(ed, b.upper)
            THEN IsRecord(ret.val)
            ELSE ret.val = LengthMismatch

(***************************************************************************)
(* Records below the first tabulated energy, and the fission interval.     *)
(***************************************************************************)
\* the axis whose lower bracket index decides whether a zero record is
\* emitted: nu_t_energy in the fission branch, the one axis elsewhere
DecidingAxis == IF RetBranch = "B1" THEN RetTable.nu_t_energy ELSE RetAxis

\* a record is returned for a row below the first energy of that axis
BelowFirstEnergy ==
    /\ Emitted
    /\ DecidingAxis # <<>>
    /\ At(MT_E_grid, RetRow) < DecidingAxis[1]

\* C16: a record emitted for a row below the first energy of the bracketing
\* axis has both laws in {0, -2}, every vector field equal to [0], erg, len
\* and intt equal to 0, and as next_dex the first row whose energy reaches
\* max(rxn.threshold(), axis[0]).
C16_BelowThresholdRecord ==
    BelowFirstEnergy =>
        LET v == ret.val
            reach == MaxOf(At(RetTable.energy, RetRxn.IE), DecidingAxis[1])
        IN  /\ v.lower_law \in {0, -2} /\ v.upper_law \in {0, -2}
            /\ \A f \in {"lower_var", "lower_pdf", "lower_cdf",
                         "upper_var", "upper_pdf", "upper_cdf"} : v[f] = <<R(0)>>
            /\ \A f \in {"lower_erg", "lower_len", "lower_intt",
                         "upper_erg", "upper_len", "upper_intt"} : v[f] = 0
            /\ v.next_dex \in 0..(E_u - 1)
            /\ At(MT_E_grid, v.next_dex) >= reach
            /\ \A i \in 0..(v.next_dex - 1) : At(MT_E_grid, i) < reach

\* a zero record of the fission branch
C16_Witness ==
    /\ BelowFirstEnergy
    /\ RetBranch = "B1"
    /\ ret.val.lower_law = 0
    /\ ret.val.next_dex > RetRow

\* a non-zero record of the fission branch is returned
FissionRecord ==
    /\ Emitted
    /\ RetBranch = "B1"
    /\ At(MT_E_grid, RetRow) >= RetTable.nu_t_energy[1]

\* the bracket interval of the row on a nu axis, from the indices the
\* emitter computes
NuInterval(axis) ==
    LET b == NuBracket(axis, At(MT_E_grid, RetRow))
    IN  [lower |-> PyAt(axis, b.lower), upper |-> PyAt(axis, b.upper)]

Inside(e, interval) == interval.lower <= e /\ e <= interval.upper

\* C17: every non-zero record of the fission branch has lower_erg <=
\* upper_erg, both inside the bracket interval on nu_t_energy and inside the
\* bracket interval on nu_d_energy.
C17_FissionInterval ==
    FissionRecord =>
        LET v == ret.val
            t == NuInterval(RetTable.nu_t_energy)
            d == NuInterval(RetTable.nu_d_energy)
        IN  /\ v.lower_erg <= v.upper_erg
            /\ Inside(v.lower_erg, t) /\ Inside(v.upper_erg, t)
            /\ Inside(v.lower_erg, d) /\ Inside(v.upper_erg, d)

(***************************************************************************)
(* Library paths and the order of the phases.                              *)
(***************************************************************************)
\* the datapaths the try block of _read_tables can resolve: the supplied
\* one, or the directive of the xsdir file (empty when it has none)
ResolvedDatapaths ==
    {DatapathAfterOpen(d) : d \in {x \in DatapathInputs : XsdirOpens(x)}}

\* D/path, or path alone when D is empty
JoinPath(D, path) == IF D = "" THEN path ELSE D \o "/" \o path

\* C18: the library path of a nuclide is D/path (path alone when D is empty)
\* where D is the supplied datapath or, when the xsdir file is named, the
\* datapath of its first line; no other D is used.
C18_ResolvedDatapath ==
    ResolveRan =>
        \A p \in DOMAIN libraries :
            \/ p = NotResolved
            \/ \E D \in ResolvedDatapaths, i \in 1..Len(XsdirLines) :
                  p = JoinPath(D, XsdirLines[i].path)

\* the phases completed so far: resolve and load are one call, _read_tables
PhaseRank ==
    CASE pc = "new"          -> 0
      [] pc = "read"         -> 1
      [] pc = "unionized"    -> 2
      [] pc = "indexed"      -> 3
      [] pc = "allocated"    -> 4
      [] pc = "interpolated" -> 5
      [] OTHER               -> 0 - 1

Stopped == pc \in {"failed", "exited"}

\* R, the number of retained reactions
RetainedCount == Len(reaction_numbers) - N

LookedUp(c) == IsotopeOf(reaction_numbers_total, num_isotopes, c)

\* per-nuclide retained counts the lookup is also examined on, as a function
\* of its arguments: they include nuclides with no retained reaction, which
\* no completed _unionize leaves behind (every table must hold MT 2)
CountChoices == {0, 1, 2}
CountVectors == UNION {[1..n -> CountChoices] : n \in 1..MaxIsotopes}

\* C20: for every reaction column c, the nuclide index the emitters compute
\* is the nuclide in whose catalog block the indexer put c, whether or not
\* some nuclides have no retained reaction or share MT numbers; the reaction
\* looked up there is the one whose cross section is in column c.
C20_ColumnLookup ==
    Resampled =>
        /\ \A c \in N..(N + num_reactions - 1) :
              LET k == LookedUp(c)
              IN  /\ k \in 0..(N - 1)
                  /\ c \in Block(k)
                  /\ HasReaction(TableOf(k), At(reaction_numbers, c))
                  /\ \A i \in 0..(E_u - 1) :
                        At(At(MT_array, i), c) =
                            SigmaAt(TableOf(k), At(reaction_numbers, c), At(MT_E_grid, i))
        /\ \A totals \in CountVectors :
              \A c \in Len(totals)..(Len(totals) + SumTo(totals, Len(totals)) - 1) :
                  LET k == IsotopeOf(totals, Len(totals), c)
                  IN  /\ k \in 0..(Len(totals) - 1)
                      /\ SumTo(totals, k) <= c - Len(totals)
                      /\ c - Len(totals) < SumTo(totals, k + 1)

\* two different nuclides that share MT numbers: the columns of the shared
\* numbers are looked up in different nuclides
C20_Witness ==
    /\ Resampled
    /\ N = 2
    /\ tables[1] # tables[2]
    /\ \E c, d \in N..(N + num_reactions - 1) :
          /\ At(reaction_numbers, c) = At(reaction_numbers, d)
          /\ LookedUp(c) = 0
          /\ LookedUp(d) = 1
====
